---------------------------- MODULE Spec2Model ----------------------------
(***************************************************************************)
(* Model of airtable-base-replicator:                                      *)
(*   - export-schema.js : classifyField, buildManualInstructions,          *)
(*                        processSchema, main                              *)
(*   - worker/index.js  : the CORS relay                                   *)
(*   - the replication driver of template/install.html (two-pass replay)  *)
(*                                                                         *)
(* JavaScript objects are functions from property names to values; a      *)
(* property that is absent (undefined) is a name outside the DOMAIN.      *)
(* JavaScript strings that the code cuts, joins or searches are sequences *)
(* of tokens; identifiers (fld..., tbl...) and literal pieces are single  *)
(* tokens, "\n" is the newline token.                                      *)
(***************************************************************************)
EXTENDS Integers, Sequences, FiniteSets, TLC

VARIABLES
    (* one field handed to classifyField / buildManualInstructions *)
    field, fpc, category, instructions,
    (* the relay: the request in hand, the upstream calls made, the answer *)
    request, rpc, upstream, airtableRes, response, allowedOrigins,
    (* an export run of export-schema.js *)
    sourceBase, opts, epc, rawSchema, processed, outputFile, consoleLog,
    exitCode, now, written,
    (* a replication run *)
    schema, phase, cursor, tableMap, report, failures,
    (* a run of generate-html.js *)
    genOpts, gpc, fullSchema, tableIndex, generated

fieldVars  == <<field, fpc, category, instructions>>
relayVars  == <<request, rpc, upstream, airtableRes, response, allowedOrigins>>
exportVars == <<sourceBase, opts, epc, rawSchema, processed, outputFile,
                consoleLog, exitCode, now, written>>
driverVars == <<schema, phase, cursor, tableMap, report, failures>>
genVars == <<genOpts, gpc, fullSchema, tableIndex, generated>>
vars == <<fieldVars, relayVars, exportVars, driverVars, genVars>>

---------------------------------------------------------------------------
(* Generic helpers for objects, sequences and token texts.                 *)

Has(o, k) == k \in DOMAIN o

(* field.options?.k is present and truthy, for a string-valued k *)
OptStr(f, k) ==
    /\ Has(f, "options")
    /\ Has(f.options, k)
    /\ f.options[k] # ""

(* field.options?.k is truthy, for a boolean-valued k *)
OptBool(f, k) ==
    /\ Has(f, "options")
    /\ Has(f.options, k)
    /\ f.options[k] = TRUE

(* field.options?.k is truthy, for a text-valued k (a token sequence) *)
OptText(f, k) ==
    /\ Has(f, "options")
    /\ Has(f.options, k)
    /\ f.options[k] # <<>>

Range(s) == {s[i] : i \in DOMAIN s}

RECURSIVE Flatten(_)
Flatten(ss) == IF ss = <<>> THEN <<>> ELSE Head(ss) \o Flatten(Tail(ss))

(* Array.prototype.join over an array of texts *)
RECURSIVE Join(_, _)
Join(parts, sep) ==
    IF parts = <<>> THEN <<>>
    ELSE IF Len(parts) = 1 THEN Head(parts)
    ELSE Head(parts) \o <<sep>> \o Join(Tail(parts), sep)

(* text.split("\n")[0] *)
RECURSIVE FirstLine(_)
FirstLine(text) ==
    IF text = <<>> \/ Head(text) = "\n" THEN <<>>
    ELSE <<Head(text)>> \o FirstLine(Tail(text))

(* String.prototype.replace(pattern, replacement) with a string pattern:
   only the first occurrence is replaced. *)
RECURSIVE Replace(_, _, _)
Replace(text, pat, repl) ==
    IF text = <<>> THEN <<>>
    ELSE IF Head(text) = pat THEN repl \o Tail(text)
    ELSE <<Head(text)>> \o Replace(Tail(text), pat, repl)

Occurs(text, tok) == tok \in Range(text)

---------------------------------------------------------------------------
(* export-schema.js: the classifier                                        *)

NON_CREATABLE_TYPES == {"formula", "rollup", "multipleLookupValues", "count"}

AUTO_SYSTEM_TYPES ==
    {"autoNumber", "createdTime", "lastModifiedTime", "createdBy", "lastModifiedBy"}

LINK_TYPE == "multipleRecordLinks"

(* a plausible slip: the reversed test dropped *)
classifyField_noReversed(f) ==
    IF f.type \in NON_CREATABLE_TYPES THEN "manual"
    ELSE IF f.type \in AUTO_SYSTEM_TYPES THEN "autoSystem"
    ELSE IF f.type = LINK_TYPE THEN "link"
    ELSE "creatable"

classifyField(f) ==
    IF f.type \in NON_CREATABLE_TYPES THEN "manual"
    ELSE IF f.type \in AUTO_SYSTEM_TYPES THEN "autoSystem"
    ELSE IF f.type = LINK_TYPE
         THEN IF OptBool(f, "isReversed") THEN "inverseLink" ELSE "link"
    ELSE "creatable"

---------------------------------------------------------------------------
(* export-schema.js: the placeholder instruction builder                   *)

(* str.charAt(0).toUpperCase() + str.slice(1), over the type names the
   model feeds it *)
capitalize(str) ==
    CASE str = "formula" -> "Formula"
      [] str = "rollup" -> "Rollup"
      [] str = "count" -> "Count"
      [] str = "multipleLookupValues" -> "MultipleLookupValues"
      [] OTHER -> str

TypeLabel(f) == IF f.type = "multipleLookupValues" THEN "Lookup" ELSE capitalize(f.type)

(* field.options?.result?.formula is truthy *)
ResultFormula(f) ==
    /\ Has(f, "options")
    /\ Has(f.options, "result")
    /\ Has(f.options.result, "formula")
    /\ f.options.result.formula # <<>>

RollupParts(f) ==
    (IF OptStr(f, "fieldIdInLinkedTable")
       THEN << <<"Summarize field: ", f.options.fieldIdInLinkedTable>> >> ELSE <<>>)
    \o
    (IF OptStr(f, "recordLinkFieldId")
       THEN << <<"From linked record field: ", f.options.recordLinkFieldId>> >> ELSE <<>>)
    \o
    (IF ResultFormula(f)
       THEN << <<"Aggregation: ">> \o f.options.result.formula >> ELSE <<>>)

LookupParts(f) ==
    (IF OptStr(f, "fieldIdInLinkedTable")
       THEN << <<"Lookup field: ", f.options.fieldIdInLinkedTable>> >> ELSE <<>>)
    \o
    (IF OptStr(f, "recordLinkFieldId")
       THEN << <<"From linked record field: ", f.options.recordLinkFieldId>> >> ELSE <<>>)

(* a plausible slip: the rollup summary keeps no default when it is empty *)
ConfigSummary_noRollupDefault(f) ==
    CASE f.type = "formula" ->
           IF OptText(f, "formula")
             THEN <<"Formula: ">> \o f.options.formula
             ELSE <<"Formula: (not available - check the original base)">>
      [] f.type = "rollup" -> Join(RollupParts(f), "\n")
      [] f.type = "multipleLookupValues" ->
           IF Join(LookupParts(f), "\n") = <<>>
             THEN <<"(check the original base for lookup configuration)">>
             ELSE Join(LookupParts(f), "\n")
      [] f.type = "count" ->
           IF OptStr(f, "recordLinkFieldId")
             THEN <<"Count records from linked field: ", f.options.recordLinkFieldId>>
             ELSE <<"(check the original base for count configuration)">>
      [] OTHER -> <<"(check the original base for configuration)">>

ConfigSummary(f) ==
    CASE f.type = "formula" ->
           IF OptText(f, "formula")
             THEN <<"Formula: ">> \o f.options.formula
             ELSE <<"Formula: (not available - check the original base)">>
      [] f.type = "rollup" ->
           IF Join(RollupParts(f), "\n") = <<>>
             THEN <<"(check the original base for rollup configuration)">>
             ELSE Join(RollupParts(f), "\n")
      [] f.type = "multipleLookupValues" ->
           IF Join(LookupParts(f), "\n") = <<>>
             THEN <<"(check the original base for lookup configuration)">>
             ELSE Join(LookupParts(f), "\n")
      [] f.type = "count" ->
           IF OptStr(f, "recordLinkFieldId")
             THEN <<"Count records from linked field: ", f.options.recordLinkFieldId>>
             ELSE <<"(check the original base for count configuration)">>
      [] OTHER -> <<"(check the original base for configuration)">>

buildManualInstructions(f) ==
    [ description |->
        <<"MANUAL SETUP REQUIRED - ", TypeLabel(f), ": ">> \o FirstLine(ConfigSummary(f)),
      cellInstructions |->
        Join(<< <<"MANUAL SETUP REQUIRED">>,
                <<>>,
                <<"Field type: ", TypeLabel(f), " (currently Long Text - you must change it)">>,
                <<>>,
                ConfigSummary(f),
                <<>>,
                <<"Steps:">>,
                <<"1. Click this field's column header">>,
                <<"2. Select Customize field type">>,
                <<"3. Change the type from Long text to ", TypeLabel(f)>>,
                <<"4. Configure using the information above">>,
                <<"5. Click Save">>,
                <<"6. Delete this instruction row when you're done with ALL fields in this table">>
             >>, "\n") ]

---------------------------------------------------------------------------
(* Inputs of the field-level functions: every type the classifier tells   *)
(* apart plus some directly creatable ones, with options absent, empty or *)
(* carrying any subset of the sub-fields the two functions read.          *)

OtherTypes == {"singleLineText", "number", "singleSelect", "checkbox"}

FieldTypes == NON_CREATABLE_TYPES \cup AUTO_SYSTEM_TYPES \cup {LINK_TYPE} \cup OtherTypes

NoProps == [k \in {} |-> TRUE]

OptionInputs ==
    { a @@ b @@ c @@ d @@ e :
        a \in {NoProps, [isReversed |-> TRUE], [isReversed |-> FALSE]},
        b \in {NoProps, [formula |-> <<"{Score}*2">>],
                        [formula |-> <<"IF({Score}>0,", "\n", "1,0)">>]},
        c \in {NoProps, [fieldIdInLinkedTable |-> "fldScore"]},
        d \in {NoProps, [recordLinkFieldId |-> "fldOwner"]},
        e \in {NoProps, [result |-> [type |-> "number"]],
                        [result |-> [type |-> "number", formula |-> <<"SUM(values)">>]]} }

FieldInputs ==
    { [id |-> "fldX", name |-> n, type |-> t] : n \in {"Total", "Owner"}, t \in FieldTypes }
    \cup
    { [id |-> "fldX", name |-> "Total", type |-> t, options |-> o] :
        t \in FieldTypes, o \in OptionInputs }

NoInstructions == [description |-> <<>>, cellInstructions |-> <<>>]

FieldIdle ==
    /\ field = [id |-> "fldX", name |-> "Total", type |-> "number"]
    /\ fpc = "idle"
    /\ category = "none"
    /\ instructions = NoInstructions

FieldInit ==
    /\ field \in FieldInputs
    /\ fpc = "input"
    /\ category = "none"
    /\ instructions = NoInstructions

---------------------------------------------------------------------------
(* worker/index.js: the relay                                              *)
(* A request is [method, headers, body]; headers.get(n) is null when n is *)
(* outside DOMAIN headers (X-Airtable-Target-Url is XAirtableTargetUrl).   *)
(* A URL is a sequence of tokens.                                          *)

AIRTABLE_PREFIX == <<"https:", "//", "api.airtable.com", "/">>

StartsWith(s, p) == Len(s) >= Len(p) /\ SubSeq(s, 1, Len(p)) = p

(* a plausible slip: the prefix is tested without its closing slash *)
TargetAllowed_noSlash(headers) ==
    /\ Has(headers, "XAirtableTargetUrl")
    /\ headers["XAirtableTargetUrl"] # <<>>
    /\ StartsWith(headers["XAirtableTargetUrl"], SubSeq(AIRTABLE_PREFIX, 1, 3))

(* targetUrl && targetUrl.startsWith("https://api.airtable.com/") *)
TargetAllowed(headers) ==
    /\ Has(headers, "XAirtableTargetUrl")
    /\ headers["XAirtableTargetUrl"] # <<>>
    /\ StartsWith(headers["XAirtableTargetUrl"], AIRTABLE_PREFIX)

(* request.headers.get("Origin") || "" *)
OriginOf(req) ==
    IF Has(req.headers, "Origin") THEN req.headers["Origin"] ELSE ""

(* a plausible slip: a request that names no origin passes the allowlist *)
isOriginAllowed_noOriginPasses(origin) ==
    IF "*" \in Range(allowedOrigins) THEN TRUE
    ELSE origin = "" \/ origin \in Range(allowedOrigins)

isOriginAllowed(origin) ==
    IF "*" \in Range(allowedOrigins) THEN TRUE ELSE origin \in Range(allowedOrigins)

CORS_HEADERS_ALLOWED == "Content-Type, Authorization, X-Airtable-Target-Url, X-Airtable-Method"

jsonResponse(body, status, origin) ==
    [ status |-> status,
      body |-> body,
      headers |-> [ContentType |-> "application/json", AllowOrigin |-> origin] ]

handlePreflight(req) ==
    IF ~isOriginAllowed(OriginOf(req))
      THEN [status |-> 403, body |-> "", headers |-> NoProps]
      ELSE [ status |-> 204,
             body |-> "",
             headers |-> [ AllowOrigin |-> IF OriginOf(req) # "" THEN OriginOf(req) ELSE "*",
                           AllowMethods |-> "POST, OPTIONS",
                           AllowHeaders |-> CORS_HEADERS_ALLOWED,
                           MaxAge |-> "86400" ] ]

(* request.headers.get("XAirtableMethod") || "POST" *)
AirtableMethod(req) ==
    IF Has(req.headers, "XAirtableMethod") /\ req.headers["XAirtableMethod"] # ""
      THEN req.headers["XAirtableMethod"] ELSE "POST"

toUpperCase(m) ==
    CASE m = "patch" -> "PATCH"
      [] m = "post" -> "POST"
      [] m = "put" -> "PUT"
      [] m = "get" -> "GET"
      [] m = "delete" -> "DELETE"
      [] OTHER -> m

(* a plausible slip: the method header is ignored and POST always used *)
UpstreamCall_alwaysPost(req) ==
    [ url |-> req.headers["XAirtableTargetUrl"],
      method |-> "POST",
      headers |->
        IF Has(req.headers, "Authorization") /\ req.headers["Authorization"] # ""
          THEN [ContentType |-> "application/json",
                Authorization |-> req.headers["Authorization"]]
          ELSE [ContentType |-> "application/json"],
      body |-> req.body ]

(* the fetchOpts and target of the upstream call *)
UpstreamCall(req) ==
    [ url |-> req.headers["XAirtableTargetUrl"],
      method |-> AirtableMethod(req),
      headers |->
        IF Has(req.headers, "Authorization") /\ req.headers["Authorization"] # ""
          THEN [ContentType |-> "application/json",
                Authorization |-> req.headers["Authorization"]]
          ELSE [ContentType |-> "application/json"] ]
    @@
    (IF toUpperCase(AirtableMethod(req)) \in {"POST", "PATCH", "PUT"}
       THEN [body |-> req.body] ELSE NoProps)

NoResponse == [status |-> 0, body |-> "", headers |-> NoProps]

(* the requests the relay is sent *)
TargetUrls ==
    { <<"https:", "//", "api.airtable.com", "/", "v0/meta/bases/appS/tables">>,
      <<"https:", "//", "api.airtable.com", "/">>,
      <<"https:", "//", "api.airtable.com">>,
      <<"https:", "//", "api.airtable.com", ".evil.example", "/">>,
      <<"http:", "//", "api.airtable.com", "/", "v0">>,
      <<"https:", "//", "evil.example", "/", "https:", "//", "api.airtable.com", "/">> }

HeaderInputs ==
    { a @@ b @@ c @@ d :
        a \in {NoProps} \cup {[Origin |-> o] : o \in {"https://school.example", "https://evil.example"}},
        b \in {NoProps} \cup {[XAirtableTargetUrl |-> u] : u \in TargetUrls \cup {<<>>}},
        c \in {NoProps} \cup {[XAirtableMethod |-> m] : m \in {"POST", "GET", "patch", "DELETE"}},
        d \in {NoProps, [Authorization |-> "Bearer patStudent"]} }

Requests ==
    { [method |-> m, headers |-> h, body |-> b] :
        m \in {"OPTIONS", "POST", "GET"}, h \in HeaderInputs, b \in {"", "{fields}"} }

AllowlistConfigs == { <<"*">>, <<"https://school.example">> }

(* what the upstream answers: a status and the text of its body; an answer
   of a null body status has the empty text *)
UpstreamAnswers ==
    { [status |-> st, body |-> b] : st \in {200, 422, 429}, b \in {"{ok}", "{error}"} }
    \cup { [status |-> 204, body |-> ""] }

NoAnswer == [status |-> 0, body |-> ""]

(* the statuses for which the Response constructor refuses a body that is
   not null *)
NULL_BODY_STATUSES == {101, 204, 205, 304}

(* new Response(responseBody, { status, headers }) of lines 72-80: the
   constructor throws a TypeError when the status is a null body status and
   the body is a string, and the throw lands in the catch of line 81 *)
PassThrough(a, origin) ==
    IF a.status \in NULL_BODY_STATUSES
      THEN jsonResponse("{error: Proxy fetch failed: Response with null body status cannot have body}",
                        502, origin)
      ELSE [ status |-> a.status,
             body |-> a.body,
             headers |-> [ ContentType |-> "application/json",
                           AllowOrigin |-> IF origin # "" THEN origin ELSE "*",
                           AllowMethods |-> "POST, OPTIONS",
                           AllowHeaders |-> CORS_HEADERS_ALLOWED ] ]

RelayIdle ==
    /\ request = [method |-> "POST", headers |-> NoProps, body |-> ""]
    /\ rpc = "off"
    /\ upstream = <<>>
    /\ airtableRes = NoAnswer
    /\ response = NoResponse
    /\ allowedOrigins = <<"*">>

RelayInit ==
    /\ request = [method |-> "POST", headers |-> NoProps, body |-> ""]
    /\ rpc = "idle"
    /\ upstream = <<>>
    /\ airtableRes = NoAnswer
    /\ response = NoResponse
    /\ allowedOrigins \in AllowlistConfigs

(* a request arrives *)
Receive ==
    /\ rpc = "idle"
    /\ \E req \in Requests : request' = req
    /\ rpc' = "received"
    /\ upstream' = <<>>
    /\ airtableRes' = NoAnswer
    /\ response' = NoResponse
    /\ UNCHANGED <<allowedOrigins, fieldVars, exportVars, driverVars, genVars>>

(* fetch(request), lines 21-47: answered without any upstream call *)
Reject ==
    /\ rpc = "received"
    /\ \/ request.method = "OPTIONS"
       \/ request.method # "POST"
       \/ ~isOriginAllowed(OriginOf(request))
       \/ ~TargetAllowed(request.headers)
    /\ response' =
         IF request.method = "OPTIONS" THEN handlePreflight(request)
         ELSE IF request.method # "POST"
           THEN jsonResponse("{error: Method not allowed. Use POST.}", 405, "*")
         ELSE IF ~isOriginAllowed(OriginOf(request))
           THEN jsonResponse("{error: Origin not allowed}", 403, "*")
         ELSE jsonResponse("{error: Invalid or missing X-Airtable-Target-Url}", 400, "*")
    /\ rpc' = "done"
    /\ UNCHANGED <<request, upstream, airtableRes, allowedOrigins, fieldVars, exportVars, driverVars, genVars>>

(* fetch(request), lines 49-69: the upstream call is issued *)
Forward ==
    /\ rpc = "received"
    /\ request.method # "OPTIONS"
    /\ request.method = "POST"
    /\ isOriginAllowed(OriginOf(request))
    /\ TargetAllowed(request.headers)
    /\ upstream' = Append(upstream, UpstreamCall(request))
    /\ rpc' = "awaiting"
    /\ UNCHANGED <<request, response, airtableRes, allowedOrigins, fieldVars, exportVars, driverVars, genVars>>

(* the answer is returned; the relay keeps nothing of the request *)
Respond ==
    /\ rpc = "done"
    /\ request' = [method |-> "POST", headers |-> NoProps, body |-> ""]
    /\ rpc' = "idle"
    /\ upstream' = <<>>
    /\ airtableRes' = NoAnswer
    /\ response' = NoResponse
    /\ UNCHANGED <<allowedOrigins, fieldVars, exportVars, driverVars, genVars>>

(* lines 69-80: the upstream answered *)
UpstreamAnswered ==
    /\ rpc = "awaiting"
    /\ \E a \in UpstreamAnswers :
         /\ airtableRes' = a
         /\ response' = PassThrough(a, OriginOf(request))
    /\ rpc' = "done"
    /\ UNCHANGED <<request, upstream, allowedOrigins, fieldVars, exportVars, driverVars, genVars>>

(* lines 81-83: the upstream fetch threw *)
UpstreamFailed ==
    /\ rpc = "awaiting"
    /\ \E msg \in {"network error", "timeout"} :
         response' = jsonResponse("{error: Proxy fetch failed: " \o msg \o "}", 502, OriginOf(request))
    /\ rpc' = "done"
    /\ UNCHANGED <<request, upstream, airtableRes, allowedOrigins, fieldVars, exportVars, driverVars, genVars>>

---------------------------------------------------------------------------
(* export-schema.js: processSchema                                         *)

(* cleanField.options: a deep copy of field.options in which every select
   choice keeps only its name and, when it has one, its color *)
StripChoice(c) ==
    IF Has(c, "color") /\ c.color # ""
      THEN [name |-> c.name, color |-> c.color]
      ELSE [name |-> c.name]

CleanOptions(o) ==
    IF Has(o, "choices")
      THEN [o EXCEPT !.choices = [i \in DOMAIN o.choices |-> StripChoice(o.choices[i])]]
      ELSE o

(* lines 457-475: the clean field every category starts from *)
CleanBase(f) ==
    [originalId |-> f.id, name |-> f.name, type |-> f.type, description |-> ""]
    @@
    (IF Has(f, "options") THEN [options |-> CleanOptions(f.options)] ELSE NoProps)

(* lines 477-502: what the category's case adds to the clean field *)
CleanField(f) ==
    CASE classifyField(f) = "link" ->
           CleanBase(f)
           @@ (IF Has(f, "options") /\ Has(f.options, "linkedTableId")
                 THEN [linkedTableId |-> f.options.linkedTableId] ELSE NoProps)
           @@ [prefersSingleRecordLink |-> OptBool(f, "prefersSingleRecordLink")]
      [] classifyField(f) = "manual" ->
           CleanBase(f)
           @@ [ manualType |-> TypeLabel(f),
                manualDescription |-> buildManualInstructions(f).description,
                manualCellInstructions |-> buildManualInstructions(f).cellInstructions,
                originalOptions |-> IF Has(f, "options") THEN f.options ELSE NoProps ]
      [] OTHER -> CleanBase(f)

(* a plausible slip: auto-system fields are dropped instead of listed *)
FieldsOf_dropAuto(fields, cat) ==
    IF cat = "autoSystem" THEN <<>>
    ELSE LET keep(f) == classifyField(f) = cat
             kept == SelectSeq(fields, keep)
         IN  [i \in DOMAIN kept |-> CleanField(kept[i])]

(* the list one category's push calls build, in field order *)
FieldsOf(fields, cat) ==
    LET keep(f) == classifyField(f) = cat
        kept == SelectSeq(fields, keep)
    IN  [i \in DOMAIN kept |-> CleanField(kept[i])]

(* lines 446-516: rawSchema.tables.map(...) *)
PartitionTable(table) ==
    [ originalId |-> table.id,
      name |-> table.name,
      description |-> "",
      primaryFieldId |-> table.primaryFieldId,
      creatableFields |-> FieldsOf(table.fields, "creatable"),
      linkFields |-> FieldsOf(table.fields, "link"),
      manualFields |-> FieldsOf(table.fields, "manual"),
      autoSystemFields |-> FieldsOf(table.fields, "autoSystem"),
      inverseLinkFields |-> FieldsOf(table.fields, "inverseLink") ]

(* lines 520-523: a later table with the same id overwrites an earlier one *)
TableIdToName(tables) ==
    [ id \in {tables[i].originalId : i \in DOMAIN tables} |->
        LET last == CHOOSE i \in DOMAIN tables :
                      /\ tables[i].originalId = id
                      /\ \A j \in DOMAIN tables : tables[j].originalId = id => j <= i
        IN  tables[last].name ]

(* a plausible slip: the link target is left as the raw id *)
ResolveLink_rawId(lf, idToName) ==
    IF Has(lf, "linkedTableId")
      THEN lf @@ [linkedTableName |-> lf.linkedTableId]
      ELSE lf

(* line 527: tableIdToName[linkedTableId] || linkedTableId *)
ResolveLink(lf, idToName) ==
    IF Has(lf, "linkedTableId")
      THEN lf @@ [linkedTableName |->
                    IF lf.linkedTableId \in DOMAIN idToName /\ idToName[lf.linkedTableId] # ""
                      THEN idToName[lf.linkedTableId]
                      ELSE lf.linkedTableId]
      ELSE lf

RECURSIVE ReplaceEach(_, _, _)
ReplaceEach(text, pat, repls) ==
    IF repls = <<>> THEN text
    ELSE ReplaceEach(Replace(text, pat, Head(repls)), pat, Tail(repls))

(* lines 533-546: one replacement per creatable or link field, of any table,
   whose originalId is the manual field's recordLinkFieldId *)
LinkFieldRepls(tables, mf) ==
    IF ~(Has(mf.originalOptions, "recordLinkFieldId") /\ mf.originalOptions.recordLinkFieldId # "")
      THEN <<>>
      ELSE LET hit(f) == f.originalId = mf.originalOptions.recordLinkFieldId
               per(t) == LET c == SelectSeq(t.creatableFields \o t.linkFields, hit)
                         IN  [i \in DOMAIN c |-> <<"\"", c[i].name, "\" field">>]
           IN  Flatten([i \in DOMAIN tables |-> per(tables[i])])

(* lines 555-571: what one matching link or inverse-link field f contributes *)
LinkedFieldRepl(tables, mf, f) ==
    LET isTarget(tt) == tt.originalId = f.linkedTableId
        found == SelectSeq(tables, isTarget)
    IN  IF found = <<>> THEN <<>>
        ELSE LET linkedTable == Head(found)
                 isField(ff) == ff.originalId = mf.originalOptions.fieldIdInLinkedTable
                 fs == SelectSeq(linkedTable.creatableFields \o linkedTable.linkFields
                                   \o linkedTable.manualFields, isField)
             IN  IF fs = <<>> THEN <<>>
                 ELSE << <<"\"", Head(fs).name, "\" in \"", linkedTable.name, "\"">> >>

(* lines 548-576: one replacement per link or inverse-link field, of any
   table, that recordLinkFieldId names and that carries a linkedTableId *)
LinkedFieldRepls(tables, mf) ==
    IF ~(Has(mf.originalOptions, "fieldIdInLinkedTable") /\ mf.originalOptions.fieldIdInLinkedTable # "")
      THEN <<>>
    ELSE IF ~Has(mf.originalOptions, "recordLinkFieldId") THEN <<>>
    ELSE LET hit(f) == /\ f.originalId = mf.originalOptions.recordLinkFieldId
                       /\ Has(f, "linkedTableId")
                       /\ f.linkedTableId # ""
             per(t) == LET c == SelectSeq(t.linkFields \o t.inverseLinkFields, hit)
                       IN  Flatten([i \in DOMAIN c |-> LinkedFieldRepl(tables, mf, c[i])])
         IN  Flatten([i \in DOMAIN tables |-> per(tables[i])])

ResolveText(tables, mf, text) ==
    LET step1 == IF LinkFieldRepls(tables, mf) = <<>> THEN text
                 ELSE ReplaceEach(text, mf.originalOptions.recordLinkFieldId,
                                  LinkFieldRepls(tables, mf))
    IN  IF LinkedFieldRepls(tables, mf) = <<>> THEN step1
        ELSE ReplaceEach(step1, mf.originalOptions.fieldIdInLinkedTable,
                         LinkedFieldRepls(tables, mf))

(* lines 530-577 for one manual field *)
ResolveManual(tables, mf) ==
    [mf EXCEPT !.manualCellInstructions = ResolveText(tables, mf, @),
               !.manualDescription = ResolveText(tables, mf, @)]

(* lines 525-578 for one table *)
ResolveTable(tables, t) ==
    [t EXCEPT !.linkFields = [i \in DOMAIN @ |-> ResolveLink(@[i], TableIdToName(tables))],
              !.manualFields = [i \in DOMAIN @ |-> ResolveManual(tables, @[i])]]

(* baseName || "Airtable Base"; an option not given is the empty sequence *)
SchemaName(baseName) ==
    IF baseName # <<>> /\ baseName[1] # "" THEN baseName[1] ELSE "Airtable Base"

processSchema(raw, baseName, time) ==
    LET tables == [i \in DOMAIN raw.tables |-> PartitionTable(raw.tables[i])]
    IN  [ name |-> SchemaName(baseName),
          exportedAt |-> time,
          tableCount |-> Len(tables),
          tables |-> [i \in DOMAIN tables |-> ResolveTable(tables, tables[i])] ]

---------------------------------------------------------------------------
(* The source bases an export reads.  A base has 1..MaxTables tables and   *)
(* at most MaxFields fields in all.  Table and field ids are unique, as    *)
(* Airtable issues them; the first field of a table is its primary field,  *)
(* which Airtable keeps of a plain type; a rollup or count field goes      *)
(* through a link field of its own table.                                  *)

MaxTables == 2
MaxFields == 4

TableId(t) == "tbl" \o ToString(t)
TableName(t) == "T" \o ToString(t)
FieldId(t, j) == "fld" \o ToString(t) \o ToString(j)
FieldName(t, j) == "N" \o ToString(t) \o ToString(j)

(* The kinds of field a source table holds.  A link points at the first
   table or at a table the export does not contain; a rollup or count goes
   through the link field before it, and a rollup summarizes the primary
   field of the table that link points at. *)
Kinds ==
    {"text", "select", "auto", "linkFirst", "linkGone", "reversedFirst", "rollup", "lookup",
     "count"}

(* The kinds of the bases a replication replays: a link there points at the
   table after its own, which the export lacks when its own is the last. *)
DriverKinds == {"text", "linkNext", "rollup"}

PrimaryKinds == {"text", "auto"}
LinkKinds == {"linkFirst", "linkGone", "reversedFirst", "linkNext"}
ThroughLinkKinds == {"rollup", "lookup", "count"}

(* the number of the table a link of that kind, in table t, points at;
   0 is a table the export does not contain *)
LinkedTableNo(kind, t) ==
    CASE kind = "linkFirst" -> 1
      [] kind = "reversedFirst" -> 1
      [] kind = "linkNext" -> t + 1
      [] OTHER -> 0

LinkedTableOf(kind, t) ==
    IF LinkedTableNo(kind, t) = 0 THEN "tblGone" ELSE TableId(LinkedTableNo(kind, t))

(* the primary field of that table *)
PrimaryFieldOf(kind, t) ==
    IF LinkedTableNo(kind, t) = 0 THEN "fldGone1" ELSE FieldId(LinkedTableNo(kind, t), 1)

MkField(kind, t, j, before) ==
    [id |-> FieldId(t, j), name |-> FieldName(t, j)]
    @@
    CASE kind = "text" -> [type |-> "singleLineText"]
      [] kind = "select" ->
           [ type |-> "singleSelect",
             options |-> [choices |-> << [id |-> "selA", name |-> "Open", color |-> "blueLight2"],
                                         [id |-> "selB", name |-> "Done"] >>] ]
      [] kind = "auto" -> [type |-> "autoNumber"]
      [] kind = "linkFirst" ->
           [ type |-> LINK_TYPE,
             options |-> [linkedTableId |-> LinkedTableOf(kind, t),
                          prefersSingleRecordLink |-> TRUE] ]
      [] kind \in {"linkGone", "linkNext"} ->
           [ type |-> LINK_TYPE, options |-> [linkedTableId |-> LinkedTableOf(kind, t)] ]
      [] kind = "reversedFirst" ->
           [ type |-> LINK_TYPE,
             options |-> [linkedTableId |-> LinkedTableOf(kind, t), isReversed |-> TRUE] ]
      [] kind = "rollup" ->
           [ type |-> "rollup",
             options |-> [ recordLinkFieldId |-> FieldId(t, j - 1),
                           fieldIdInLinkedTable |-> PrimaryFieldOf(before, t),
                           result |-> [type |-> "number"] ] ]
      [] kind = "lookup" ->
           [ type |-> "multipleLookupValues",
             options |-> [ recordLinkFieldId |-> FieldId(t, j - 1),
                           fieldIdInLinkedTable |-> PrimaryFieldOf(before, t) ] ]
      [] kind = "count" ->
           [ type |-> "count",
             options |-> [recordLinkFieldId |-> FieldId(t, j - 1)] ]

RECURSIVE SumSeq(_)
SumSeq(l) == IF l = <<>> THEN 0 ELSE Head(l) + SumSeq(Tail(l))

(* the ways to cut n fields into 1..MaxTables non-empty tables *)
Compositions(n) ==
    UNION { {l \in [1..k -> 1..n] : SumSeq(l) = n} : k \in 1..MaxTables }

WellFormedTable(kinds) ==
    /\ kinds[1] \in PrimaryKinds
    /\ \A j \in 2..Len(kinds) : kinds[j] \in ThroughLinkKinds => kinds[j - 1] \in LinkKinds

MkTable(kinds, t) ==
    [ id |-> TableId(t),
      name |-> TableName(t),
      primaryFieldId |-> FieldId(t, 1),
      fields |-> [j \in DOMAIN kinds |->
                    MkField(kinds[j], t, j, IF j > 1 THEN kinds[j - 1] ELSE "none")] ]

TableKinds(kinds, l, t) ==
    SubSeq(kinds, SumSeq(SubSeq(l, 1, t - 1)) + 1, SumSeq(SubSeq(l, 1, t)))

MkSchema(kinds, l) ==
    [ tables |-> [t \in DOMAIN l |-> MkTable(TableKinds(kinds, l, t), t)] ]

SchemasOver(kinds, maxF) ==
    UNION { { MkSchema(ks, l) :
                ks \in {x \in [1..n -> kinds] :
                          \A t \in DOMAIN l : WellFormedTable(TableKinds(x, l, t))} }
            : <<n, l>> \in UNION { {<<m, c>> : c \in Compositions(m)} : m \in 1..maxF } }

RawSchemas == SchemasOver(Kinds, MaxFields)

---------------------------------------------------------------------------
(* export-schema.js: main                                                  *)

Credentials ==
    { [base |-> "appSRC1", key |-> "patTeacher1"],
      [base |-> "appSRC2", key |-> "patTeacher2"] }

NameOptions == { NoProps, [name |-> "My Course Base"] }

NoFile == [name |-> "", tables |-> <<>>]

(* a plausible slip: without --name the base id becomes the display name *)
BaseNameArg_baseId(o) == IF Has(o, "name") THEN <<o.name>> ELSE <<o.base>>

(* opts.name as main hands it to processSchema *)
BaseNameArg(o) == IF Has(o, "name") THEN <<o.name>> ELSE <<>>

(* lines 600-608: one summary line per table *)
Summary(p) ==
    [ i \in DOMAIN p.tables |->
        [ line |-> "summary",
          table |-> p.tables[i].name,
          fields |-> Len(p.tables[i].creatableFields),
          links |-> Len(p.tables[i].linkFields),
          manual |-> Len(p.tables[i].manualFields),
          autoSystem |-> Len(p.tables[i].autoSystemFields),
          inverseLinks |-> Len(p.tables[i].inverseLinkFields) ] ]

ExportIdle ==
    /\ sourceBase = [tables |-> <<>>]
    /\ opts = NoProps
    /\ epc = "off"
    /\ rawSchema = [tables |-> <<>>]
    /\ processed = NoFile
    /\ outputFile = NoFile
    /\ consoleLog = <<>>
    /\ exitCode = 0
    /\ now = 1
    /\ written = <<>>

ExportStart(bases, creds) ==
    /\ sourceBase \in bases
    /\ opts \in {c @@ n : c \in creds, n \in NameOptions}
    /\ epc = "start"
    /\ rawSchema = [tables |-> <<>>]
    /\ processed = NoFile
    /\ outputFile = NoFile
    /\ consoleLog = <<>>
    /\ exitCode = 0
    /\ now = 1
    /\ written = <<>>

(* lines 343-355, 593-595: the metadata endpoint answers with the tables *)
FetchSchemaOk ==
    /\ epc = "start"
    /\ rawSchema' = sourceBase
    /\ consoleLog' = consoleLog \o << [line |-> "fetching", base |-> opts.base],
                                      [line |-> "found", tables |-> Len(sourceBase.tables)] >>
    /\ epc' = "fetched"
    /\ UNCHANGED <<sourceBase, opts, processed, outputFile, exitCode, now, written>>
    /\ UNCHANGED <<fieldVars, relayVars, driverVars, genVars>>

(* lines 349-352, 618-621: the fetch is refused and main exits with 1 *)
FetchSchemaFail ==
    /\ epc = "start"
    /\ \E status \in {401, 404} :
         consoleLog' = consoleLog \o << [line |-> "fetching", base |-> opts.base],
                                        [line |-> "error", status |-> status] >>
    /\ exitCode' = 1
    /\ epc' = "failed"
    /\ UNCHANGED <<sourceBase, opts, rawSchema, processed, outputFile, now, written>>
    /\ UNCHANGED <<fieldVars, relayVars, driverVars, genVars>>

(* line 597 *)
ProcessSchema ==
    /\ epc = "fetched"
    /\ processed' = processSchema(rawSchema, BaseNameArg(opts), now)
    /\ epc' = "processed"
    /\ UNCHANGED <<sourceBase, opts, rawSchema, outputFile, consoleLog, exitCode, now, written>>
    /\ UNCHANGED <<fieldVars, relayVars, driverVars, genVars>>

(* lines 599-615: the summary is printed and the file written *)
WriteOutput ==
    /\ epc = "processed"
    /\ consoleLog' = consoleLog \o Summary(processed) \o << [line |-> "written"] >>
    /\ outputFile' = processed
    /\ epc' = "written"
    /\ UNCHANGED <<sourceBase, opts, rawSchema, processed, exitCode, now, written>>
    /\ UNCHANGED <<fieldVars, relayVars, driverVars, genVars>>

MaxClock == 2

(* the teacher runs the export again, later, with the same --name and any
   credentials; the file of the run before stays on disk and is remembered
   in written *)
Rerun ==
    /\ epc \in {"written", "failed"}
    /\ now < MaxClock
    /\ now' = now + 1
    /\ written' = IF epc = "written"
                    THEN << [opts |-> opts, raw |-> rawSchema, file |-> outputFile] >>
                    ELSE written
    /\ \E c \in Credentials :
         opts' = c @@ (IF Has(opts, "name") THEN [name |-> opts.name] ELSE NoProps)
    /\ epc' = "start"
    /\ rawSchema' = [tables |-> <<>>]
    /\ processed' = NoFile
    /\ consoleLog' = <<>>
    /\ exitCode' = 0
    /\ UNCHANGED <<sourceBase, outputFile>>
    /\ UNCHANGED <<fieldVars, relayVars, driverVars, genVars>>

---------------------------------------------------------------------------
(* The replication driver (template/install.html), as the specification   *)
(* describes it: tables first, then creatable fields, then link fields,   *)
(* then manual fields, then one instruction row per table with manual     *)
(* fields.  Create calls are made one at a time; each may fail.            *)

MaxFailures == 1

TargetId(name) == "new_" \o name

Steps(tables, kind, listName) ==
    Flatten([ i \in DOMAIN tables |->
               [ j \in DOMAIN tables[i][listName] |->
                   [ kind |-> kind,
                     table |-> tables[i].name,
                     field |-> tables[i][listName][j].name,
                     target |-> IF Has(tables[i][listName][j], "linkedTableName")
                                  THEN tables[i][listName][j].linkedTableName ELSE "" ] ] ])

TableSteps(tables) ==
    [ i \in DOMAIN tables |->
        [kind |-> "table", table |-> tables[i].name, field |-> "", target |-> ""] ]

RowSteps(tables) ==
    LET hasManual(t) == t.manualFields # <<>>
        ts == SelectSeq(tables, hasManual)
    IN  [ i \in DOMAIN ts |->
            [kind |-> "row", table |-> ts[i].name, field |-> "", target |-> ""] ]

(* the create calls of a run, in the order of the passes *)
WorkList(sch) ==
    TableSteps(sch.tables)
    \o Steps(sch.tables, "creatable", "creatableFields")
    \o Steps(sch.tables, "link", "linkFields")
    \o Steps(sch.tables, "manual", "manualFields")
    \o RowSteps(sch.tables)

PhaseOf(kind) ==
    CASE kind = "table" -> "CreatingTables"
      [] kind = "creatable" -> "CreatingCreatableFields"
      [] kind = "link" -> "CreatingLinkFields"
      [] kind = "manual" -> "CreatingManualFields"
      [] kind = "row" -> "InsertingInstructionRows"

(* the state the driver is in once the cursor stands at step c *)
PhaseAt(sch, c) ==
    IF c > Len(WorkList(sch)) THEN "Done" ELSE PhaseOf(WorkList(sch)[c].kind)

Current == WorkList(schema)[cursor]

Running == phase \notin {"Idle", "Done", "Failed"} /\ cursor <= Len(WorkList(schema))

Outcome(step, outcome, ref) ==
    [ kind |-> step.kind, table |-> step.table, field |-> step.field,
      target |-> step.target, outcome |-> outcome, ref |-> ref ]

Advance ==
    /\ cursor' = cursor + 1
    /\ phase' = PhaseAt(schema, cursor + 1)

(* a slip: every link target counts as resolved *)
Resolvable_always(step, map) == TRUE

(* pass 2: linkedTableName is looked up in the runtime table map *)
Resolvable(step, map) == step.target \in DOMAIN map

DriverIdle ==
    /\ schema = NoFile
    /\ phase = "Off"
    /\ cursor = 1
    /\ tableMap = NoProps
    /\ report = {}
    /\ failures = 0

DriverInit ==
    /\ schema \in { processSchema(raw, <<>>, 1) : raw \in SchemasOver(DriverKinds, MaxFields) }
    /\ phase = "Idle"
    /\ cursor = 1
    /\ tableMap = NoProps
    /\ report = {}
    /\ failures = 0

StartRun ==
    /\ phase = "Idle"
    /\ phase' = PhaseAt(schema, 1)
    /\ UNCHANGED <<schema, cursor, tableMap, report, failures>>
    /\ UNCHANGED <<fieldVars, relayVars, exportVars, genVars>>

(* the create call for the step in hand is answered with an error *)
CallFails ==
    /\ failures < MaxFailures
    /\ failures' = failures + 1
    /\ report' = report \cup {Outcome(Current, "CreateCallFailed", "")}
    /\ UNCHANGED tableMap

(* pass 1: the table is created and its target-side id recorded *)
CreateTable ==
    /\ Running /\ Current.kind = "table"
    /\ \/ /\ tableMap' = tableMap @@ (Current.table :> TargetId(Current.table))
          /\ report' = report \cup {Outcome(Current, "created", TargetId(Current.table))}
          /\ UNCHANGED failures
       \/ CallFails
    /\ Advance
    /\ UNCHANGED schema
    /\ UNCHANGED <<fieldVars, relayVars, exportVars, genVars>>

(* a field or row of a table that was not created is skipped *)
SkipOrphan ==
    /\ report' = report \cup {Outcome(Current, "SkippedDueToDependencyFailure", "")}
    /\ UNCHANGED <<tableMap, failures>>

CreateInTable ==
    /\ Current.table \in DOMAIN tableMap
    /\ \/ /\ report' = report \cup {Outcome(Current, "created", tableMap[Current.table])}
          /\ UNCHANGED <<tableMap, failures>>
       \/ CallFails

CreateCreatableField ==
    /\ Running /\ Current.kind = "creatable"
    /\ IF Current.table \in DOMAIN tableMap THEN CreateInTable ELSE SkipOrphan
    /\ Advance
    /\ UNCHANGED schema
    /\ UNCHANGED <<fieldVars, relayVars, exportVars, genVars>>

(* pass 2: a link field is created only once its target resolves, and then
   with the target-side id of the table it points at *)
CreateLinkField ==
    /\ Running /\ Current.kind = "link"
    /\ IF ~Resolvable(Current, tableMap)
         THEN /\ report' = report \cup {Outcome(Current, "UnresolvedDependency", "")}
              /\ UNCHANGED <<tableMap, failures>>
         ELSE IF Current.table \notin DOMAIN tableMap THEN SkipOrphan
         ELSE \/ /\ report' = report \cup
                       {Outcome(Current, "created",
                                IF Current.target \in DOMAIN tableMap
                                  THEN tableMap[Current.target] ELSE Current.target)}
                 /\ UNCHANGED <<tableMap, failures>>
              \/ CallFails
    /\ Advance
    /\ UNCHANGED schema
    /\ UNCHANGED <<fieldVars, relayVars, exportVars, genVars>>

CreateManualField ==
    /\ Running /\ Current.kind = "manual"
    /\ IF Current.table \in DOMAIN tableMap THEN CreateInTable ELSE SkipOrphan
    /\ Advance
    /\ UNCHANGED schema
    /\ UNCHANGED <<fieldVars, relayVars, exportVars, genVars>>

InsertInstructionRow ==
    /\ Running /\ Current.kind = "row"
    /\ IF Current.table \in DOMAIN tableMap THEN CreateInTable ELSE SkipOrphan
    /\ Advance
    /\ UNCHANGED schema
    /\ UNCHANGED <<fieldVars, relayVars, exportVars, genVars>>

(* the relay cannot be reached: the run stops where it stands *)
Abort ==
    /\ Running
    /\ phase' = "Failed"
    /\ UNCHANGED <<schema, cursor, tableMap, report, failures>>
    /\ UNCHANGED <<fieldVars, relayVars, exportVars, genVars>>

---------------------------------------------------------------------------
(* cli/generate-html.js: the install pages.  A page is recorded by the      *)
(* schema injected into it; the template text around it is left out.        *)

(* Set.prototype.add on a set kept in insertion order *)
AddOnce(seq, x) == IF x \in Range(seq) THEN seq ELSE Append(seq, x)

RECURSIVE AddAll(_, _)
AddAll(seq, xs) == IF xs = <<>> THEN seq ELSE AddAll(AddOnce(seq, Head(xs)), Tail(xs))

(* lines 50-54: the names the table's own link fields reference *)
OwnTargets(table) ==
    LET named(lf) == /\ Has(lf, "linkedTableName")
                     /\ lf.linkedTableName # ""
                     /\ lf.linkedTableName # table.name
        kept == SelectSeq(table.linkFields, named)
    IN  [k \in DOMAIN kept |-> kept[k].linkedTableName]

(* lines 56-62: one entry per link field, of another table, that references
   the table *)
Referrers(table, allTables) ==
    LET refs(lf) == Has(lf, "linkedTableName") /\ lf.linkedTableName = table.name
        per(t) == IF t.name = table.name THEN <<>>
                  ELSE [k \in DOMAIN SelectSeq(t.linkFields, refs) |-> t.name]
    IN  Flatten([i \in DOMAIN allTables |-> per(allTables[i])])

(* a plausible slip: the tables that link to this table are left out *)
getTableDependencies_ownLinksOnly(table, allTables) ==
    AddAll(<<>>, OwnTargets(table))

getTableDependencies(table, allTables) ==
    AddAll(AddAll(<<>>, OwnTargets(table)), Referrers(table, allTables))

(* lines 70-75: fullSchema.tables.find by name, pushed when found *)
DepTables(deps, tables) ==
    LET found(name) == LET is(t) == t.name = name IN SelectSeq(tables, is)
    IN  Flatten([k \in DOMAIN deps |->
                   IF found(deps[k]) = <<>> THEN <<>> ELSE <<Head(found(deps[k]))>>])

createPerTableSchema(table, full) ==
    LET deps == getTableDependencies(table, full.tables)
        includedTables == <<table>> \o DepTables(deps, full.tables)
    IN  [ name |-> full.name \o " - " \o table.name,
          exportedAt |-> full.exportedAt,
          tableCount |-> Len(includedTables),
          tables |-> includedTables,
          primaryTable |-> table.name ]

MaxGenTables == 3

(* the field kinds of a table of the schema files the generator reads: the
   primary field and up to two link fields *)
GenLayouts ==
    { <<"text">>,
      <<"text", "linkFirst">>,
      <<"text", "linkNext">>,
      <<"text", "linkFirst", "linkNext">>,
      <<"text", "linkFirst", "linkFirst">>,
      <<"text", "reversedFirst">>,
      <<"text", "linkNext", "reversedFirst">>,
      <<"text", "linkGone">> }

(* the schema files: what an export writes for a base of 1..MaxGenTables
   tables *)
SchemaFiles ==
    UNION { { processSchema([tables |-> [t \in 1..k |-> MkTable(lay[t], t)]], <<"Course">>, 1) :
                lay \in [1..k -> GenLayouts] }
            : k \in 1..MaxGenTables }

GenIdle ==
    /\ genOpts = [perTable |-> FALSE]
    /\ gpc = "off"
    /\ fullSchema = NoFile
    /\ tableIndex = 1
    /\ generated = <<>>

GenInit ==
    /\ genOpts \in {[perTable |-> b] : b \in BOOLEAN}
    /\ gpc = "start"
    /\ fullSchema \in SchemaFiles
    /\ tableIndex = 1
    /\ generated = <<>>

(* main, lines 91-103: the page of the whole base *)
GenerateFull ==
    /\ gpc = "start"
    /\ generated' = Append(generated, [page |-> "full", table |-> "", schema |-> fullSchema])
    /\ gpc' = IF genOpts.perTable THEN "tables" ELSE "done"
    /\ UNCHANGED <<genOpts, fullSchema, tableIndex>>
    /\ UNCHANGED <<fieldVars, relayVars, exportVars, driverVars>>

(* main, lines 107-116: the page of one table *)
GeneratePerTable ==
    /\ gpc = "tables"
    /\ tableIndex <= Len(fullSchema.tables)
    /\ generated' = Append(generated,
                           [ page |-> "table",
                             table |-> fullSchema.tables[tableIndex].name,
                             schema |-> createPerTableSchema(fullSchema.tables[tableIndex],
                                                             fullSchema) ])
    /\ tableIndex' = tableIndex + 1
    /\ UNCHANGED <<genOpts, gpc, fullSchema>>
    /\ UNCHANGED <<fieldVars, relayVars, exportVars, driverVars>>

(* main, lines 117-124: the loop is over *)
GenerateDone ==
    /\ gpc = "tables"
    /\ tableIndex > Len(fullSchema.tables)
    /\ gpc' = "done"
    /\ UNCHANGED <<genOpts, fullSchema, tableIndex, generated>>
    /\ UNCHANGED <<fieldVars, relayVars, exportVars, driverVars>>

---------------------------------------------------------------------------
(* The field-level functions applied to one field.                         *)

ClassifyField ==
    /\ fpc = "input"
    /\ category' = classifyField(field)
    /\ fpc' = "classified"
    /\ UNCHANGED <<field, instructions>>
    /\ UNCHANGED <<relayVars, exportVars, driverVars, genVars>>

(* processSchema calls the builder for the manual category only *)
BuildManualInstructions ==
    /\ fpc = "classified"
    /\ category = "manual"
    /\ instructions' = buildManualInstructions(field)
    /\ fpc' = "built"
    /\ UNCHANGED <<field, category>>
    /\ UNCHANGED <<relayVars, exportVars, driverVars, genVars>>

---------------------------------------------------------------------------
(* Specifications                                                          *)

FieldNext == ClassifyField \/ BuildManualInstructions

InitField == FieldInit /\ RelayIdle /\ ExportIdle /\ DriverIdle /\ GenIdle

SpecField == InitField /\ [][FieldNext]_vars

RelayNext == Receive \/ Reject \/ Forward \/ UpstreamAnswered \/ UpstreamFailed \/ Respond

InitRelay == FieldIdle /\ RelayInit /\ ExportIdle /\ DriverIdle /\ GenIdle

SpecRelay == InitRelay /\ [][RelayNext]_vars

ExportNext == FetchSchemaOk \/ FetchSchemaFail \/ ProcessSchema \/ WriteOutput

(* one export run over every source base *)
InitExport ==
    /\ FieldIdle /\ RelayIdle /\ DriverIdle /\ GenIdle
    /\ ExportStart(RawSchemas, {[base |-> "appSRC1", key |-> "patTeacher1"]})

SpecExport == InitExport /\ [][ExportNext]_vars

RunsNext == ExportNext \/ Rerun

(* export runs one after the other, with any credentials *)
InitRuns ==
    /\ FieldIdle /\ RelayIdle /\ DriverIdle /\ GenIdle
    /\ ExportStart(SchemasOver(Kinds, MaxFields - 1), Credentials)

SpecRuns == InitRuns /\ [][RunsNext]_vars

DriverNext ==
    \/ StartRun \/ CreateTable \/ CreateCreatableField \/ CreateLinkField
    \/ CreateManualField \/ InsertInstructionRow \/ Abort

InitDriver == FieldIdle /\ RelayIdle /\ ExportIdle /\ DriverInit /\ GenIdle

SpecDriver == InitDriver /\ [][DriverNext]_vars

GenerateNext == GenerateFull \/ GeneratePerTable \/ GenerateDone

InitGenerate == FieldIdle /\ RelayIdle /\ ExportIdle /\ DriverIdle /\ GenInit

SpecGenerate == InitGenerate /\ [][GenerateNext]_vars

Spec == SpecField

---------------------------------------------------------------------------
(* Properties                                                              *)

Processed == epc \in {"processed", "written"}

ListNames ==
    {"creatableFields", "linkFields", "manualFields", "autoSystemFields", "inverseLinkFields"}

ListFor(cat) ==
    CASE cat = "creatable" -> "creatableFields"
      [] cat = "link" -> "linkFields"
      [] cat = "manual" -> "manualFields"
      [] cat = "autoSystem" -> "autoSystemFields"
      [] cat = "inverseLink" -> "inverseLinkFields"

CountIn(list, id) == Cardinality({k \in DOMAIN list : list[k].originalId = id})

ListedFields(pt) ==
    Len(pt.creatableFields) + Len(pt.linkFields) + Len(pt.manualFields)
      + Len(pt.autoSystemFields) + Len(pt.inverseLinkFields)

(* C1: after processSchema every field of every raw table is in exactly one
   of the table's five lists, the one classifyField names for it, and the
   lists hold nothing else. *)
C1_Partition ==
    Processed =>
      /\ Len(processed.tables) = Len(rawSchema.tables)
      /\ \A i \in DOMAIN rawSchema.tables :
           /\ \A j \in DOMAIN rawSchema.tables[i].fields :
                \A n \in ListNames :
                  CountIn(processed.tables[i][n], rawSchema.tables[i].fields[j].id)
                    = IF n = ListFor(classifyField(rawSchema.tables[i].fields[j])) THEN 1 ELSE 0
           /\ ListedFields(processed.tables[i]) = Len(rawSchema.tables[i].fields)

C1_Witness ==
    /\ Processed
    /\ \E i \in DOMAIN processed.tables :
         /\ processed.tables[i].autoSystemFields # <<>>
         /\ processed.tables[i].inverseLinkFields # <<>>
         /\ processed.tables[i].manualFields # <<>>

(* the decision table of the specification, section 4.1 *)
IsReversedTrue(f) ==
    "options" \in DOMAIN f /\ "isReversed" \in DOMAIN f.options /\ f.options.isReversed = TRUE

DecisionTable(f) ==
    CASE f.type \in {"formula", "rollup", "multipleLookupValues", "count"} -> "manual"
      [] f.type \in {"autoNumber", "createdTime", "lastModifiedTime", "createdBy",
                     "lastModifiedBy"} -> "autoSystem"
      [] f.type = "multipleRecordLinks" /\ IsReversedTrue(f) -> "inverseLink"
      [] f.type = "multipleRecordLinks" /\ ~IsReversedTrue(f) -> "link"
      [] OTHER -> "creatable"

(* C2: the category classifyField returns for a field is the one the
   decision table gives for its type and options. *)
C2_DecisionTable ==
    fpc \in {"classified", "built"} => category = DecisionTable(field)

C2_Witness ==
    /\ fpc = "classified"
    /\ field.type = "multipleRecordLinks"
    /\ "options" \in DOMAIN field
    /\ "isReversed" \in DOMAIN field.options
    /\ field.options.isReversed = TRUE
    /\ category = "inverseLink"

(* the target header is missing, empty, or does not begin with the four
   tokens of https://api.airtable.com/ *)
BadTarget(req) ==
    \/ "XAirtableTargetUrl" \notin DOMAIN req.headers
    \/ Len(req.headers.XAirtableTargetUrl) < 4
    \/ req.headers.XAirtableTargetUrl[1] # "https:"
    \/ req.headers.XAirtableTargetUrl[2] # "//"
    \/ req.headers.XAirtableTargetUrl[3] # "api.airtable.com"
    \/ req.headers.XAirtableTargetUrl[4] # "/"

(* C3 as claimed: every request with a missing or foreign target URL is
   answered 400 and nothing is fetched upstream for it. *)
C3_Original ==
    (rpc = "done" /\ BadTarget(request)) => (response.status = 400 /\ upstream = <<>>)

(* C3 amended: no request with a missing or foreign target URL is ever
   forwarded upstream, whatever its method, headers and body; it is answered
   400 when it is a POST from an allowed origin (a preflight is answered by
   handlePreflight, another method 405, a refused origin 403). *)
C3_NeverForwarded ==
    BadTarget(request) =>
      /\ upstream = <<>>
      /\ rpc # "awaiting"
      /\ rpc = "done" =>
           /\ request.method = "POST" /\ isOriginAllowed(OriginOf(request))
                => response.status = 400
           /\ request.method = "OPTIONS" => response.status \in {204, 403}
           /\ request.method \notin {"POST", "OPTIONS"} => response.status = 405
           /\ request.method = "POST" /\ ~isOriginAllowed(OriginOf(request))
                => response.status = 403

C3_Witness ==
    /\ rpc = "done"
    /\ request.method = "POST"
    /\ "XAirtableTargetUrl" \in DOMAIN request.headers
    /\ request.headers.XAirtableTargetUrl
         = <<"https:", "//", "api.airtable.com", ".evil.example", "/">>
    /\ response.status = 400
    /\ upstream = <<>>

LinkOutcomes == {r \in report : r.kind = "link"}

DoneSteps == {WorkList(schema)[k] : k \in 1..(cursor - 1)}

(* C4: a link field is created only when the table it references has an id
   in the runtime table map, and with that id; a link field whose
   linkedTableName has no entry is not created and is reported as
   UnresolvedDependency. *)
C4_LinkAfterTable ==
    phase # "Off" =>
      /\ \A r \in LinkOutcomes :
           r.outcome = "created" =>
             /\ r.target \in DOMAIN tableMap
             /\ r.ref = tableMap[r.target]
      /\ \A st \in DoneSteps :
           (st.kind = "link" /\ st.target \notin DOMAIN tableMap) =>
             /\ \E r \in LinkOutcomes :
                  /\ r.table = st.table /\ r.field = st.field
                  /\ r.outcome = "UnresolvedDependency"
             /\ ~\E r \in LinkOutcomes :
                  /\ r.table = st.table /\ r.field = st.field
                  /\ r.outcome = "created"

C4_Witness ==
    /\ phase = "Done"
    /\ \E r \in LinkOutcomes : r.outcome = "created" /\ r.target = "T2"
    /\ \E r \in LinkOutcomes : r.outcome = "UnresolvedDependency" /\ r.target = "tbl3"

RawFieldOf(i, id) ==
    CHOOSE f \in Range(rawSchema.tables[i].fields) : f.id = id

TablesWithId(id) == {t \in DOMAIN processed.tables : processed.tables[t].originalId = id}

(* C5: every link field's linkedTableName is the name of the table whose
   originalId is the field's source linkedTableId when the schema has such a
   table, and the raw linkedTableId otherwise. *)
C5_LinkedTableName ==
    Processed =>
      \A i \in DOMAIN processed.tables :
        \A k \in DOMAIN processed.tables[i].linkFields :
          LET lf == processed.tables[i].linkFields[k]
              srcId == RawFieldOf(i, lf.originalId).options.linkedTableId
          IN  /\ "linkedTableName" \in DOMAIN lf
              /\ IF TablesWithId(srcId) # {}
                   THEN \A t \in TablesWithId(srcId) :
                          lf.linkedTableName = processed.tables[t].name
                   ELSE lf.linkedTableName = srcId

C5_Witness ==
    /\ Processed
    /\ \E i \in DOMAIN processed.tables :
         /\ \E k \in DOMAIN processed.tables[i].linkFields :
              processed.tables[i].linkFields[k].linkedTableName = "T1"
         /\ \E k \in DOMAIN processed.tables[i].linkFields :
              processed.tables[i].linkFields[k].linkedTableName = "tblGone"

(* C6 as claimed: a link field whose target was rewritten to linkedTableName
   carries the source table id neither as its own linkedTableId nor inside
   its options. *)
C6_NoSourceTableId ==
    Processed =>
      \A i \in DOMAIN processed.tables :
        \A k \in DOMAIN processed.tables[i].linkFields :
          LET lf == processed.tables[i].linkFields[k]
          IN  "linkedTableName" \in DOMAIN lf =>
                /\ "linkedTableId" \notin DOMAIN lf
                /\ ~("options" \in DOMAIN lf /\ "linkedTableId" \in DOMAIN lf.options)

SourceTableIds == {rawSchema.tables[i].id : i \in DOMAIN rawSchema.tables}

HasDanglingLink ==
    \E i \in DOMAIN rawSchema.tables :
      \E j \in DOMAIN rawSchema.tables[i].fields :
        LET f == rawSchema.tables[i].fields[j]
        IN  /\ f.type = "multipleRecordLinks"
            /\ ~IsReversedTrue(f)
            /\ "options" \in DOMAIN f
            /\ "linkedTableId" \in DOMAIN f.options
            /\ f.options.linkedTableId \notin SourceTableIds

(* C7 as claimed: when a link field names a table the schema lacks, the
   export run reports it (an error exit or a warning line) instead of
   writing the schema silently. *)
C7_DanglingLinkSurfaced ==
    (epc = "written" /\ HasDanglingLink) =>
      \/ exitCode # 0
      \/ \E k \in DOMAIN consoleLog : consoleLog[k].line \in {"error", "warning"}

AllManual ==
    {<<i, k>> \in (DOMAIN processed.tables) \X (1..MaxFields + 1) :
        k \in DOMAIN processed.tables[i].manualFields}

RefsOf(mf) ==
    {mf.originalOptions[key] :
       key \in {"recordLinkFieldId", "fieldIdInLinkedTable"} \cap DOMAIN mf.originalOptions}

(* the fields of any table's creatable, link or manual list with that id *)
Owners(id) ==
    UNION { {f \in Range(processed.tables[t].creatableFields)
                     \cup Range(processed.tables[t].linkFields)
                     \cup Range(processed.tables[t].manualFields) : f.originalId = id}
            : t \in DOMAIN processed.tables }

(* C8 as claimed: an identifier a manual field's options reference is
   replaced by the quoted field name in its instruction texts whenever some
   creatable, link or manual field of any table has it as originalId, and
   stays, in untouched texts, when none has. *)
C8_ReferencesResolved ==
    Processed =>
      \A m \in AllManual :
        LET mf == processed.tables[m[1]].manualFields[m[2]]
            built == buildManualInstructions(RawFieldOf(m[1], mf.originalId))
        IN  /\ \A id \in RefsOf(mf) :
                 IF Owners(id) # {}
                   THEN /\ ~Occurs(mf.manualCellInstructions, id)
                        /\ ~Occurs(mf.manualDescription, id)
                        /\ \E f \in Owners(id) : Occurs(mf.manualCellInstructions, f.name)
                   ELSE Occurs(mf.manualCellInstructions, id)
            /\ (\A id \in RefsOf(mf) : Owners(id) = {}) =>
                 /\ mf.manualCellInstructions = built.cellInstructions
                 /\ mf.manualDescription = built.description

DefaultSummaries ==
    { "Formula: (not available - check the original base)",
      "(check the original base for rollup configuration)",
      "(check the original base for lookup configuration)",
      "(check the original base for count configuration)" }

UsesDefault(text) == \E tok \in DefaultSummaries : Occurs(text, tok)

CarriesOption(f, k) == "options" \in DOMAIN f /\ k \in DOMAIN f.options

(* one of the sub-fields the builder reads for the field's type is given *)
CarriesExpected(f) ==
    CASE f.type = "formula" -> CarriesOption(f, "formula")
      [] f.type = "rollup" ->
           \/ CarriesOption(f, "fieldIdInLinkedTable")
           \/ CarriesOption(f, "recordLinkFieldId")
           \/ (CarriesOption(f, "result") /\ "formula" \in DOMAIN f.options.result)
      [] f.type = "multipleLookupValues" ->
           CarriesOption(f, "fieldIdInLinkedTable") \/ CarriesOption(f, "recordLinkFieldId")
      [] f.type = "count" -> CarriesOption(f, "recordLinkFieldId")
      [] OTHER -> FALSE

(* C9: for each of the four manual types, with options absent, empty or
   carrying any subset of the expected sub-fields, buildManualInstructions
   returns a non-empty description and non-empty cellInstructions, and the
   summary is the "check the original base" default exactly when none of the
   expected sub-fields is given. *)
C9_InstructionsTotal ==
    fpc = "built" =>
      /\ field.type \in {"formula", "rollup", "multipleLookupValues", "count"}
      /\ instructions.description # <<>>
      /\ instructions.cellInstructions # <<>>
      /\ Len(instructions.description) > 3
      /\ UsesDefault(instructions.cellInstructions) <=> ~CarriesExpected(field)
      /\ UsesDefault(instructions.description) <=> ~CarriesExpected(field)

C9_Witness ==
    /\ fpc = "built"
    /\ field.type = "rollup"
    /\ "options" \in DOMAIN field
    /\ DOMAIN field.options = {"isReversed"}
    /\ UsesDefault(instructions.cellInstructions)

(* every string of a written schema *)
FieldStrings(f) ==
    {f.originalId, f.name, f.type, f.description}
    \cup (IF "linkedTableId" \in DOMAIN f THEN {f.linkedTableId} ELSE {})
    \cup (IF "linkedTableName" \in DOMAIN f THEN {f.linkedTableName} ELSE {})
    \cup (IF "manualType" \in DOMAIN f
            THEN {f.manualType} \cup Range(f.manualDescription)
                   \cup Range(f.manualCellInstructions)
                   \cup {f.originalOptions[k] :
                           k \in {"recordLinkFieldId", "fieldIdInLinkedTable"}
                                   \cap DOMAIN f.originalOptions}
            ELSE {})

TableStrings(t) ==
    {t.originalId, t.name, t.description, t.primaryFieldId}
    \cup UNION { UNION {FieldStrings(t[n][k]) : k \in DOMAIN t[n]} : n \in ListNames }

SchemaStrings(file) ==
    {file.name} \cup UNION {TableStrings(file.tables[i]) : i \in DOMAIN file.tables}

Timeless(file) == [file EXCEPT !.exportedAt = 0]

SameName(o1, o2) ==
    /\ ("name" \in DOMAIN o1) = ("name" \in DOMAIN o2)
    /\ "name" \in DOMAIN o1 => o1.name = o2.name

(* C10: two export runs over the same raw schema with the same --name write
   the same schema apart from exportedAt, whatever their API keys and base
   ids, and neither the key nor the base id of a run occurs in what it
   writes. *)
C10_CredentialFree ==
    epc = "written" =>
      /\ opts.key \notin SchemaStrings(outputFile)
      /\ opts.base \notin SchemaStrings(outputFile)
      /\ \A k \in DOMAIN written :
           (written[k].raw = rawSchema /\ SameName(written[k].opts, opts)) =>
             Timeless(written[k].file) = Timeless(outputFile)

C10_Witness ==
    /\ epc = "written"
    /\ written # <<>>
    /\ written[1].opts.key # opts.key
    /\ written[1].opts.base # opts.base
    /\ "name" \notin DOMAIN opts
    /\ written[1].file.exportedAt # outputFile.exportedAt
    /\ outputFile.tables # <<>>
BodyMethods == {"POST", "PATCH", "PUT"}

(* C11 as claimed: the upstream call of a forwarded request goes to the URL
   the target header names, uses the method the method header names, and
   carries the Authorization header and the body of the incoming request,
   whatever the method header is. *)
C11_Original ==
    upstream # <<>> =>
      /\ upstream[1].url = request.headers.XAirtableTargetUrl
      /\ Has(request.headers, "XAirtableMethod") =>
           upstream[1].method = request.headers.XAirtableMethod
      /\ Has(request.headers, "Authorization") =>
           /\ Has(upstream[1].headers, "Authorization")
           /\ upstream[1].headers.Authorization = request.headers.Authorization
      /\ Has(upstream[1], "body")
      /\ upstream[1].body = request.body

(* C11 amended: one upstream call per forwarded request, to the URL the
   target header names, with the method the method header names (POST when
   the header is absent) and with the incoming Authorization header when
   there is one; the incoming body is carried when that method, upper-cased,
   is POST, PATCH or PUT, and no body is sent otherwise. *)
C11_ForwardedFaithfully ==
    upstream # <<>> =>
      /\ Len(upstream) = 1
      /\ upstream[1].url = request.headers.XAirtableTargetUrl
      /\ upstream[1].method =
           IF Has(request.headers, "XAirtableMethod")
             THEN request.headers.XAirtableMethod ELSE "POST"
      /\ IF Has(request.headers, "Authorization")
           THEN /\ Has(upstream[1].headers, "Authorization")
                /\ upstream[1].headers.Authorization = request.headers.Authorization
           ELSE ~Has(upstream[1].headers, "Authorization")
      /\ IF toUpperCase(upstream[1].method) \in BodyMethods
           THEN Has(upstream[1], "body") /\ upstream[1].body = request.body
           ELSE ~Has(upstream[1], "body")

C11_Witness ==
    /\ rpc = "awaiting"
    /\ Has(request.headers, "XAirtableMethod")
    /\ request.headers.XAirtableMethod = "patch"
    /\ Has(request.headers, "Authorization")
    /\ request.body = "{fields}"
    /\ upstream[1].method = "patch"
    /\ upstream[1].body = "{fields}"
(* the Origin header of the request is on the configured list, or the list
   holds the wildcard *)
OriginListed(req) ==
    \/ \E k \in DOMAIN allowedOrigins : allowedOrigins[k] = "*"
    \/ /\ Has(req.headers, "Origin")
       /\ \E k \in DOMAIN allowedOrigins : allowedOrigins[k] = req.headers.Origin

(* C12 as claimed: an upstream call is made only for a POST from a listed
   origin; every other non-preflight method is answered 405 and every
   request or preflight from an unlisted origin is answered 403, nothing
   being forwarded. *)
C12_Original ==
    /\ upstream # <<>> => (request.method = "POST" /\ OriginListed(request))
    /\ (rpc = "done" /\ request.method \notin {"POST", "OPTIONS"}) =>
         (response.status = 405 /\ upstream = <<>>)
    /\ (rpc = "done" /\ ~OriginListed(request)) =>
         (response.status = 403 /\ upstream = <<>>)

(* C12 amended: an upstream call is made only for a POST from a listed
   origin; a method other than POST and OPTIONS is answered 405 whatever the
   origin, a POST or a preflight from an unlisted origin is answered 403,
   and nothing is forwarded in either case. *)
C12_OnlyListedPost ==
    /\ (upstream # <<>> \/ rpc = "awaiting") =>
         (request.method = "POST" /\ OriginListed(request))
    /\ (rpc = "done" /\ request.method \notin {"POST", "OPTIONS"}) =>
         (response.status = 405 /\ upstream = <<>>)
    /\ (rpc = "done" /\ request.method \in {"POST", "OPTIONS"} /\ ~OriginListed(request)) =>
         (response.status = 403 /\ upstream = <<>>)

C12_Witness ==
    /\ rpc = "done"
    /\ request.method = "POST"
    /\ allowedOrigins = <<"https://school.example">>
    /\ Has(request.headers, "Origin")
    /\ request.headers.Origin = "https://evil.example"
    /\ TargetAllowed(request.headers)
    /\ response.status = 403
    /\ upstream = <<>>
(* C13 as claimed: when the upstream answers a forwarded request, the
   relay's response has the upstream's status and body; when the upstream
   fetch fails, the relay answers 502 with a JSON error body. *)
C13_PassThrough ==
    (rpc = "done" /\ upstream # <<>>) =>
      IF airtableRes # NoAnswer
        THEN /\ response.status = airtableRes.status
             /\ response.body = airtableRes.body
        ELSE /\ response.status = 502
             /\ response.headers.ContentType = "application/json"
             /\ response.body \in {"{error: Proxy fetch failed: " \o m \o "}" :
                                     m \in {"network error", "timeout"}}
(* text holds the tokens of piece, in a row *)
ContainsSeq(text, piece) ==
    \E k \in 1..(Len(text) - Len(piece) + 1) : SubSeq(text, k, k + Len(piece) - 1) = piece

(* the link and inverse-link fields, of any table, with that originalId *)
LinksWithId(id) ==
    UNION { {f \in Range(processed.tables[t].linkFields)
                     \cup Range(processed.tables[t].inverseLinkFields) : f.originalId = id}
            : t \in DOMAIN processed.tables }

(* the fields of a table's creatable, link and manual lists with that id *)
FieldsWithId(t, id) ==
    {f \in Range(processed.tables[t].creatableFields)
              \cup Range(processed.tables[t].linkFields)
              \cup Range(processed.tables[t].manualFields) : f.originalId = id}

(* C14 as claimed: for a rollup or lookup field that goes through a link or
   an inverse-link field, and whose fieldIdInLinkedTable names a creatable,
   link or manual field of the table that link points at, both instruction
   texts hold "<field name>" in "<table name>" in place of the raw id. *)
C14_LinkedFieldNamed ==
    Processed =>
      \A m \in AllManual :
        LET mf == processed.tables[m[1]].manualFields[m[2]]
        IN  ( /\ mf.type \in {"rollup", "multipleLookupValues"}
              /\ Has(mf.originalOptions, "recordLinkFieldId")
              /\ Has(mf.originalOptions, "fieldIdInLinkedTable") ) =>
            \A lf \in LinksWithId(mf.originalOptions.recordLinkFieldId) :
              \A t \in TablesWithId(lf.options.linkedTableId) :
                \A ff \in FieldsWithId(t, mf.originalOptions.fieldIdInLinkedTable) :
                  LET piece == <<"\"", ff.name, "\" in \"", processed.tables[t].name, "\"">>
                  IN  /\ ContainsSeq(mf.manualCellInstructions, piece)
                      /\ ContainsSeq(mf.manualDescription, piece)
                      /\ ~Occurs(mf.manualCellInstructions, mf.originalOptions.fieldIdInLinkedTable)
                      /\ ~Occurs(mf.manualDescription, mf.originalOptions.fieldIdInLinkedTable)
(* the pages written for single tables, in the order of the schema's tables *)
TablePages == SelectSeq(generated, LAMBDA g : g.page = "table")

LinksTo(a, b) ==
    \E k \in DOMAIN a.linkFields :
      /\ Has(a.linkFields[k], "linkedTableName")
      /\ a.linkFields[k].linkedTableName = b.name

TimesIn(tables, t) == Cardinality({k \in DOMAIN tables : tables[k] = t})

(* C15: the per-table schema of table T starts with T, holds exactly once
   every other table of the full schema that a link field of T references
   or that has a link field referencing T, holds no further table, and its
   tableCount is the length of its list. *)
C15_PerTableSchema ==
    \A i \in DOMAIN TablePages :
      LET T == fullSchema.tables[i]
          out == TablePages[i].schema
      IN  /\ out.tables # <<>>
          /\ out.tables[1] = T
          /\ TimesIn(out.tables, T) = 1
          /\ \A j \in DOMAIN fullSchema.tables :
               LET B == fullSchema.tables[j]
               IN  B.name # T.name =>
                     TimesIn(out.tables, B) = IF LinksTo(T, B) \/ LinksTo(B, T) THEN 1 ELSE 0
          /\ \A k \in DOMAIN out.tables : out.tables[k] \in Range(fullSchema.tables)
          /\ out.tableCount = Len(out.tables)

C15_Witness ==
    /\ gpc = "done"
    /\ Len(TablePages) = 3
    /\ TablePages[1].schema.tableCount = 3
    /\ TablePages[2].schema.tableCount = 2
    /\ TablePages[3].schema.tableCount = 2
    /\ LinksTo(fullSchema.tables[1], fullSchema.tables[2])
    /\ LinksTo(fullSchema.tables[2], fullSchema.tables[1])
    /\ LinksTo(fullSchema.tables[3], fullSchema.tables[1])
TableNames(tables) == {tables[k].name : k \in DOMAIN tables}

(* every link field of the schema names a table of the schema *)
AllTargetsResolve(full) ==
    \A i \in DOMAIN full.tables :
      \A k \in DOMAIN full.tables[i].linkFields :
        full.tables[i].linkFields[k].linkedTableName \in TableNames(full.tables)

(* C16 as claimed: when every link target of the full schema resolves, each
   per-table schema holds, for every table in it and every link field of
   that table, the table named by linkedTableName. *)
C16_ClosedUnderLinks ==
    AllTargetsResolve(fullSchema) =>
      \A i \in DOMAIN TablePages :
        LET out == TablePages[i].schema
        IN  \A j \in DOMAIN out.tables :
              \A k \in DOMAIN out.tables[j].linkFields :
                out.tables[j].linkFields[k].linkedTableName \in TableNames(out.tables)
=============================================================================
